---- MODULE Spec2Model ----
(***************************************************************************)
(* Model of llm_reflection.LlmReflection: the three-call reflection        *)
(* pipeline (draft, critique, revision), its prompt construction and the   *)
(* provider adapter.  Python strings are TLA+ strings; the provider        *)
(* clients (langchain OpenAI / VertexAI) are external: their constructor   *)
(* and their invoke() either return or raise, nondeterministically.        *)
(***************************************************************************)
EXTENDS Integers, Sequences, FiniteSets, TLC

VARIABLES
    pc,                       \* per engine: where the engine object is
    providerParams,           \* argument of __init__
    client_call,              \* the provider-client constructor call made by _create_llm
    ctor,                     \* how __init__ ended
    llm,                      \* self.llm
    history,                  \* self._history
    prompt,                   \* generate_text: argument prompt
    reflection_items,         \* generate_text: argument reflection_items
    reflection_items_prompt,  \* generate_text: local
    first_text,               \* generate_text: local
    reflection,               \* generate_text: local
    sent,                     \* prompts handed to self.llm.invoke in this invocation
    received,                 \* results self.llm.invoke returned in this invocation
    outcome,                  \* how the last generate_text invocation ended
    completed                 \* number of invocations that returned (saturating)

vars == <<pc, providerParams, client_call, ctor, llm, history, prompt,
          reflection_items, reflection_items_prompt, first_text, reflection,
          sent, received, outcome, completed>>

----------------------------------------------------------------------------
(* Bounds and input sets *)

MaxItems == 2
MaxCompleted == 2

Engines == {"A", "B"}

Items == {"", "accuracy"}

BoundedSeq(S, n) == UNION {[1..k -> S] : k \in 0..n}

Criteria == BoundedSeq(Items, MaxItems)

CriteriaSmall == {<<>>, <<"accuracy">>}

PromptA == [person |-> "You are a translator", task |-> "translate X",
            context |-> "", output_format |-> ""]

PromptB == [person |-> "You are a chef. ", task |-> "Create 1 recipe",
            context |-> " Use rice.", output_format |-> "JSON"]

Prompts == {PromptA, PromptB}

Results == {"uno", "dos", "la <FIRST_RESULT> casa"}

GoogleInputs == {[kind |-> "Google", model_name |-> "gemini-1.5-flash",
                  openai_api_key |-> "", openai_organization |-> ""]}

OpenAIInputs == {[kind |-> "OpenAI", model_name |-> "gpt", openai_api_key |-> k,
                  openai_organization |-> o] : k \in {"", "sk"}, o \in {"", "org"}}

SystemMessage == "You are a translator"

----------------------------------------------------------------------------
(* Values *)

NoParams == [kind |-> "none", model_name |-> "", openai_api_key |-> "",
             openai_organization |-> ""]

NoClient == [kind |-> "none", model_name |-> "", openai_api_key |-> "",
             openai_organization |-> "", system_message |-> ""]

NoPrompt == [person |-> "", task |-> "", context |-> "", output_format |-> ""]

NoExc == [type |-> "none"]

\* The exception a provider client raises (constructor or invoke).
ProviderException == [type |-> "ProviderException"]

NoOutcome == [kind |-> "none", value |-> "", exc |-> NoExc]

----------------------------------------------------------------------------
(* Pure functions *)

Digit(d) ==
    CASE d = 0 -> "0" [] d = 1 -> "1" [] d = 2 -> "2" [] d = 3 -> "3"
      [] d = 4 -> "4" [] d = 5 -> "5" [] d = 6 -> "6" [] d = 7 -> "7"
      [] d = 8 -> "8" [] d = 9 -> "9"

RECURSIVE Str(_)
\* The decimal rendering of a natural number in an f-string.
Str(n) == IF n < 10 THEN Digit(n) ELSE Str(n \div 10) \o Digit(n % 10)

\* A join that inserts a separator between the fields.
prompt_text_spaced(tmpl) ==
    tmpl.person \o " " \o tmpl.task \o " " \o tmpl.context \o " " \o tmpl.output_format

\* PrompTemplate.prompt_text
prompt_text(tmpl) ==
    tmpl.person \o tmpl.task \o tmpl.context \o tmpl.output_format

\* The loop body numbering from enumerate's index itself (0-based).
ItemLineZeroBased(index, item) ==
    "\n                " \o Str(index) \o ". " \o item \o " \n\n            "

\* One pass of the loop body of generate_text: index is enumerate's 0-based index.
ItemLine(index, item) ==
    "\n                " \o Str(index + 1) \o ". " \o item \o " \n\n            "

RECURSIVE ItemsPromptFrom(_, _)
ItemsPromptFrom(items, index) ==
    IF index >= Len(items) THEN ""
    ELSE ItemLine(index, items[index + 1]) \o ItemsPromptFrom(items, index + 1)

\* The loop of generate_text that builds reflection_items_prompt.
ReflectionItemsPrompt(items) == ItemsPromptFrom(items, 0)

\* The critique prompt reviewing the rendered prompt instead of the draft.
ReviewedPrompt(tmpl, text) == prompt_text(tmpl)

\* The text placed between the FIRST_RESULT tags of the critique prompt.
ReviewedText(tmpl, text) == text

\* _generate_reflection: prompt_reflection
PromptReflection(tmpl, text, items_prompt) ==
    IF items_prompt # ""
    THEN "\n                you are "
      \o tmpl.person
      \o " and then give constructive criticism and helpful suggestions to improve the following task\n                "
      \o tmpl.task
      \o "\n\n                The first result delimited by XML tags <FIRST_RESULT></FIRST_RESULT> is the follow:\n                <FIRST_RESULT>\n                "
      \o ReviewedText(tmpl, text)
      \o "\n                </FIRST_RESULT>\n\n                When writing suggestions, pay attention to whether there are ways to improve \n                "
      \o items_prompt
      \o "\n\n                Write a list of specific, helpful and constructive suggestions for improving the "
      \o tmpl.task
      \o ".\n                Output only the suggestions and nothing else.\n            "
    ELSE "\n                you are "
      \o tmpl.person
      \o " and then give constructive criticism and helpful suggestions to improve the following task\n                "
      \o tmpl.task
      \o "\n\n                The first result delimited by XML tags <FIRST_RESULT></FIRST_RESULT> is the follow:\n                <FIRST_RESULT>\n                "
      \o ReviewedText(tmpl, text)
      \o "\n                </FIRST_RESULT>\n\n                When writing suggestions, first define four reflection points for this task and pay attention to whether there are ways to improve \n\n                Write a list of specific, helpful and constructive suggestions for improving the "
      \o tmpl.task
      \o ".\n                Output only the suggestions and nothing else.\n            "

\* _generate_improve_text: prompt_improve_text
PromptImproveText(tmpl, text, expert_suggestions, items_prompt) ==
    "\n            Your task is to carefully read, then edit, a "
      \o tmpl.task
      \o ", taking into\n            account a list of expert suggestions and constructive criticisms.\n\n            The first result delimited by XML tags <FIRST_RESULT></FIRST_RESULT> is the follow:\n            <FIRST_RESULT>\n            "
      \o text
      \o "\n            </FIRST_RESULT>,\n\n            and the expert suggestions are delimited by XML tags <EXPERT_SUGGESTIONS></EXPERT_SUGGESTIONS>             as follows:\n\n            <EXPERT_SUGGESTIONS>\n            "
      \o expert_suggestions
      \o "\n            </EXPERT_SUGGESTIONS>\n\n            Please take into account the expert suggestions when you are doing "
      \o tmpl.task
      \o ". Edit the first result by ensuring:\n            "
      \o items_prompt
      \o "\n\n            Output only the new result and nothing else\n        "

\* _create_llm: the provider client that is constructed for the parameters.
CreateLlm(params, system_message) ==
    IF params.kind = "OpenAI"
    THEN [kind |-> "OpenAI", model_name |-> params.model_name,
          openai_api_key |-> params.openai_api_key,
          openai_organization |-> params.openai_organization,
          system_message |-> system_message]
    ELSE [kind |-> "VertexAI", model_name |-> params.model_name,
          openai_api_key |-> "", openai_organization |-> "",
          system_message |-> system_message]

\* An invocation that starts from the history it finds.
KeepHistory(h) == h

\* generate_text line 103: the history an invocation starts from.
ResetHistory(h) == <<>>

\* Returning the draft in place of the revision.
ReturnDraft(draft, critique, revision) == draft

\* The value generate_text returns: the result of _generate_improve_text.
ReturnValue(draft, critique, revision) == revision

\* A history list shared by every engine instance.
AppendShared(h, e, result) == [f \in Engines |-> Append(h[f], result)]

\* self._history.append(result) on engine e.
AppendHistory(h, e, result) == [h EXCEPT ![e] = Append(@, result)]

Saturate(n) == IF n < MaxCompleted THEN n + 1 ELSE n

----------------------------------------------------------------------------
(* State machine *)

Init ==
    /\ pc = [e \in Engines |-> "unconstructed"]
    /\ providerParams = [e \in Engines |-> NoParams]
    /\ client_call = [e \in Engines |-> NoClient]
    /\ ctor = [e \in Engines |-> NoOutcome]
    /\ llm = [e \in Engines |-> NoClient]
    /\ history = [e \in Engines |-> <<>>]
    /\ prompt = [e \in Engines |-> NoPrompt]
    /\ reflection_items = [e \in Engines |-> <<>>]
    /\ reflection_items_prompt = [e \in Engines |-> ""]
    /\ first_text = [e \in Engines |-> ""]
    /\ reflection = [e \in Engines |-> ""]
    /\ sent = [e \in Engines |-> <<>>]
    /\ received = [e \in Engines |-> <<>>]
    /\ outcome = [e \in Engines |-> NoOutcome]
    /\ completed = [e \in Engines |-> 0]

runVars == <<prompt, reflection_items, reflection_items_prompt, first_text,
             reflection, sent, received, outcome, completed>>

ctorVars == <<providerParams, client_call, ctor, llm>>

\* LlmReflection.__init__ when the provider client's constructor returns.
Construct(e, params) ==
    /\ pc[e] = "unconstructed"
    /\ providerParams' = [providerParams EXCEPT ![e] = params]
    /\ client_call' = [client_call EXCEPT ![e] = CreateLlm(params, SystemMessage)]
    /\ llm' = [llm EXCEPT ![e] = CreateLlm(params, SystemMessage)]
    /\ history' = [history EXCEPT ![e] = <<>>]
    /\ ctor' = [ctor EXCEPT ![e] = [kind |-> "returned", value |-> "", exc |-> NoExc]]
    /\ pc' = [pc EXCEPT ![e] = "idle"]
    /\ UNCHANGED runVars

\* LlmReflection.__init__ when the provider client's constructor raises:
\* the exception leaves __init__ and no engine exists.
ConstructRaises(e, params) ==
    /\ pc[e] = "unconstructed"
    /\ providerParams' = [providerParams EXCEPT ![e] = params]
    /\ client_call' = [client_call EXCEPT ![e] = CreateLlm(params, SystemMessage)]
    /\ ctor' = [ctor EXCEPT ![e] = [kind |-> "raised", value |-> "",
                                    exc |-> ProviderException]]
    /\ pc' = [pc EXCEPT ![e] = "init_failed"]
    /\ UNCHANGED <<llm, history>>
    /\ UNCHANGED runVars

\* generate_text up to the first self.llm.invoke (the draft call is in flight).
GenerateText(e, tmpl, items) ==
    /\ pc[e] = "idle"
    /\ history' = [history EXCEPT ![e] = ResetHistory(history[e])]
    /\ prompt' = [prompt EXCEPT ![e] = tmpl]
    /\ reflection_items' = [reflection_items EXCEPT ![e] = items]
    /\ reflection_items_prompt' =
           [reflection_items_prompt EXCEPT ![e] = ReflectionItemsPrompt(items)]
    /\ first_text' = [first_text EXCEPT ![e] = ""]
    /\ reflection' = [reflection EXCEPT ![e] = ""]
    /\ sent' = [sent EXCEPT ![e] = <<prompt_text(tmpl)>>]
    /\ received' = [received EXCEPT ![e] = <<>>]
    /\ outcome' = [outcome EXCEPT ![e] = [kind |-> "pending", value |-> "",
                                          exc |-> NoExc]]
    /\ pc' = [pc EXCEPT ![e] = "draft"]
    /\ UNCHANGED <<completed>>
    /\ UNCHANGED ctorVars

\* The draft call returns: _generate_first_text appends it, _generate_reflection
\* builds the critique prompt and invokes the model (the critique call is in flight).
DraftReturns(e, result) ==
    /\ pc[e] = "draft"
    /\ received' = [received EXCEPT ![e] = Append(@, result)]
    /\ history' = AppendHistory(history, e, result)
    /\ first_text' = [first_text EXCEPT ![e] = result]
    /\ sent' = [sent EXCEPT ![e] =
                    Append(@, PromptReflection(prompt[e], result,
                                               reflection_items_prompt[e]))]
    /\ pc' = [pc EXCEPT ![e] = "critique"]
    /\ UNCHANGED <<prompt, reflection_items, reflection_items_prompt, reflection,
                   outcome, completed>>
    /\ UNCHANGED ctorVars

\* The critique call returns: _generate_reflection appends it,
\* _generate_improve_text builds the revision prompt and invokes the model.
CritiqueReturns(e, result) ==
    /\ pc[e] = "critique"
    /\ received' = [received EXCEPT ![e] = Append(@, result)]
    /\ history' = AppendHistory(history, e, result)
    /\ reflection' = [reflection EXCEPT ![e] = result]
    /\ sent' = [sent EXCEPT ![e] =
                    Append(@, PromptImproveText(prompt[e], first_text[e], result,
                                                reflection_items_prompt[e]))]
    /\ pc' = [pc EXCEPT ![e] = "revision"]
    /\ UNCHANGED <<prompt, reflection_items, reflection_items_prompt, first_text,
                   outcome, completed>>
    /\ UNCHANGED ctorVars

\* The revision call returns: _generate_improve_text appends it and returns it,
\* and generate_text returns that value.
RevisionReturns(e, result) ==
    /\ pc[e] = "revision"
    /\ received' = [received EXCEPT ![e] = Append(@, result)]
    /\ history' = AppendHistory(history, e, result)
    /\ outcome' = [outcome EXCEPT ![e] =
                      [kind |-> "returned",
                       value |-> ReturnValue(first_text[e], reflection[e], result),
                       exc |-> NoExc]]
    /\ completed' = [completed EXCEPT ![e] = Saturate(@)]
    /\ pc' = [pc EXCEPT ![e] = "idle"]
    /\ UNCHANGED <<prompt, reflection_items, reflection_items_prompt, first_text,
                   reflection, sent>>
    /\ UNCHANGED ctorVars

\* self.llm.invoke raises in any stage: nothing catches it, so the exception
\* leaves generate_text as it is and nothing is appended.
InvokeRaises(e) ==
    /\ pc[e] \in {"draft", "critique", "revision"}
    /\ outcome' = [outcome EXCEPT ![e] = [kind |-> "raised", value |-> "",
                                          exc |-> ProviderException]]
    /\ pc' = [pc EXCEPT ![e] = "idle"]
    /\ UNCHANGED <<history, prompt, reflection_items, reflection_items_prompt,
                   first_text, reflection, sent, received, completed>>
    /\ UNCHANGED ctorVars

\* One engine used by one caller.
Next ==
    \/ \E params \in GoogleInputs \cup OpenAIInputs : Construct("A", params)
    \/ \E params \in GoogleInputs \cup OpenAIInputs : ConstructRaises("A", params)
    \/ \E tmpl \in Prompts, items \in Criteria : GenerateText("A", tmpl, items)
    \/ \E result \in Results : DraftReturns("A", result)
    \/ \E result \in Results : CritiqueReturns("A", result)
    \/ \E result \in Results : RevisionReturns("A", result)
    \/ InvokeRaises("A")

Spec == Init /\ [][Next]_vars

\* Two engines whose steps interleave freely.
NextTwo ==
    \E e \in Engines :
        \/ \E params \in GoogleInputs : Construct(e, params)
        \/ \E params \in GoogleInputs : ConstructRaises(e, params)
        \/ \E items \in CriteriaSmall : GenerateText(e, PromptA, items)
        \/ \E result \in Results : DraftReturns(e, result)
        \/ \E result \in Results : CritiqueReturns(e, result)
        \/ \E result \in Results : RevisionReturns(e, result)
        \/ InvokeRaises(e)

SpecTwo == Init /\ [][NextTwo]_vars

----------------------------------------------------------------------------
(* Reading a prompt: substring search, independent of how prompts are built *)

OccursAt(s, t, i) ==
    /\ i >= 1
    /\ i + Len(t) - 1 <= Len(s)
    /\ SubSeq(s, i, i + Len(t) - 1) = t

Contains(s, t) == \E i \in 1..(Len(s) - Len(t) + 1) : OccursAt(s, t, i)

IsSpace(s, i) == i <= Len(s) /\ SubSeq(s, i, i) \in {" ", "\n"}

RECURSIVE SkipSpace(_, _)
\* The first position at or after i that holds no blank or line break.
SkipSpace(s, i) == IF IsSpace(s, i) THEN SkipSpace(s, i + 1) ELSE i

\* text stands in s between <tag> and </tag>, with only white space around it.
Wrapped(s, tag, text) ==
    \E i \in 1..Len(s) :
        /\ OccursAt(s, "<" \o tag \o ">", i)
        /\ LET j == SkipSpace(s, i + Len(tag) + 2)
               k == SkipSpace(s, j + Len(text))
           IN  /\ OccursAt(s, text, j)
               /\ OccursAt(s, "</" \o tag \o ">", k)

\* The entry "i. item" ends its line: only blanks follow it up to the line break.
RECURSIVE EndsLine(_, _)
EndsLine(s, i) ==
    /\ i <= Len(s)
    /\ \/ SubSeq(s, i, i) = "\n"
       \/ SubSeq(s, i, i) = " " /\ EndsLine(s, i + 1)

RECURSIVE EntriesFrom(_, _, _, _)
\* Entries i..N of the numbered list occur in s, in this order, from position start.
EntriesFrom(s, items, i, start) ==
    IF i > Len(items) THEN TRUE
    ELSE LET entry == Str(i) \o ". " \o items[i]
         IN  \E j \in start..Len(s) :
                 /\ OccursAt(s, entry, j)
                 /\ EndsLine(s, j + Len(entry))
                 /\ EntriesFrom(s, items, i + 1, j + Len(entry))

NumberedList(s, items) == EntriesFrom(s, items, 1, 1)

FourPoints == "first define four reflection points"

EditingClause == "Edit the first result by ensuring:"

Idle(e) == pc[e] \in {"idle"}

----------------------------------------------------------------------------
(* Claims *)

\* C1: whenever no invocation is in progress on an engine, its history has
\* length 0 or exactly 3 (a run that fails at the critique or revision stage
\* never leaves a 1- or 2-element history).
C1_HistoryZeroOrThree ==
    \A e \in Engines : Idle(e) => Len(history[e]) \in {0, 3}

\* C2: an invocation whose completion calls all succeed issues exactly 3
\* calls, ends with history = [draft, critique, revision] in call order, and
\* returns the revision, the last element of history.
C2_SuccessfulRun ==
    \A e \in Engines :
        outcome[e].kind = "returned" =>
            /\ Len(sent[e]) = 3
            /\ Len(received[e]) = 3
            /\ history[e] = received[e]
            /\ outcome[e].value = received[e][3]
            /\ outcome[e].value = history[e][Len(history[e])]

C2_Witness ==
    /\ outcome["A"].kind = "returned"
    /\ history["A"] = <<"uno", "dos", "uno">>
    /\ outcome["A"].value = "uno"

\* C3: history never accumulates: after two or more successful invocations on
\* one engine, history has length 3 and holds exactly the three outputs of the
\* latest invocation.
C3_NoAccumulation ==
    \A e \in Engines :
        (completed[e] >= 2 /\ outcome[e].kind = "returned") =>
            /\ Len(history[e]) = 3
            /\ \A i \in 1..3 : history[e][i] = received[e][i]

C3_Witness ==
    /\ completed["A"] >= 2
    /\ outcome["A"].kind = "returned"
    /\ history["A"] = <<"dos", "dos", "uno">>

\* C4: the stages run in the order draft, critique, revision, each call issued
\* only after the previous one returned; the critique prompt embeds the draft
\* result in FIRST_RESULT tags, and the revision prompt embeds the draft result
\* in FIRST_RESULT tags and the critique result in EXPERT_SUGGESTIONS tags.
C4_StageOrderAndEmbedding ==
    \A e \in Engines :
        /\ Len(sent[e]) <= Len(received[e]) + 1
        /\ pc[e] = "draft" => (Len(sent[e]) = 1 /\ Len(received[e]) = 0)
        /\ pc[e] = "critique" =>
               /\ Len(sent[e]) = 2 /\ Len(received[e]) = 1
               /\ Wrapped(sent[e][2], "FIRST_RESULT", received[e][1])
        /\ pc[e] = "revision" =>
               /\ Len(sent[e]) = 3 /\ Len(received[e]) = 2
               /\ Wrapped(sent[e][3], "FIRST_RESULT", received[e][1])
               /\ Wrapped(sent[e][3], "EXPERT_SUGGESTIONS", received[e][2])

C4_Witness ==
    /\ pc["A"] = "revision"
    /\ received["A"] = <<"uno", "dos">>
    /\ Len(sent["A"]) = 3

\* C5: for criteria of length N > 0 the critique prompt holds the numbered list
\* "1."..."N." pairing index i with the i-th item in input order (empty items
\* are numbered too and never switch the wording); for N = 0 it holds no list
\* but the instruction to first define four reflection points.
C5_CritiqueNumberedList ==
    \A e \in Engines :
        pc[e] = "critique" =>
            IF Len(reflection_items[e]) > 0
            THEN /\ NumberedList(sent[e][2], reflection_items[e])
                 /\ ~Contains(sent[e][2], FourPoints)
            ELSE /\ Contains(sent[e][2], FourPoints)
                 /\ ~Contains(sent[e][2], "1. ")

C5_Witness ==
    /\ pc["A"] = "critique"
    /\ reflection_items["A"] = <<"", "accuracy">>

\* C6: with non-empty criteria the revision prompt repeats the numbered list of
\* the critique prompt as editing instructions; with empty criteria the
\* revision prompt omits the editing-instruction clause altogether.
C6_RevisionListOrOmitted ==
    \A e \in Engines :
        Len(sent[e]) >= 3 =>
            IF Len(reflection_items[e]) > 0
            THEN /\ Contains(sent[e][2], reflection_items_prompt[e])
                 /\ Contains(sent[e][3], EditingClause)
                 /\ Contains(sent[e][3], reflection_items_prompt[e])
                 /\ NumberedList(sent[e][3], reflection_items[e])
            ELSE ~Contains(sent[e][3], EditingClause)

\* C7: when the completion call of stage k fails, generate_text fails with a
\* GenerationError carrying the name of stage k and the underlying cause, after
\* exactly k calls, without a retry and without returning a text.
C7_GenerationErrorWithStage ==
    \A e \in Engines :
        outcome[e].kind = "raised" =>
            /\ Len(sent[e]) = Len(received[e]) + 1
            /\ outcome[e].value = ""
            /\ outcome[e].exc.type = "GenerationError"
            /\ outcome[e].exc.stage = Len(sent[e])
            /\ outcome[e].exc.cause = ProviderException

\* C8: constructing an engine from OpenAI parameters whose api_key or
\* organization is empty raises ConfigurationError before the provider client
\* is constructed.
C8_ConfigurationErrorFirst ==
    \A e \in Engines :
        ( /\ providerParams[e].kind = "OpenAI"
          /\ \/ providerParams[e].openai_api_key = ""
             \/ providerParams[e].openai_organization = "" ) =>
            /\ client_call[e] = NoClient
            /\ ctor[e].kind = "raised"
            /\ ctor[e].exc.type = "ConfigurationError"

\* C9: the rendered prompt is persona + task + context + output_format with
\* nothing inserted (its length is the sum of theirs and each field stands at
\* the offset the preceding ones leave), and the draft call receives exactly it.
C9_RenderedPromptVerbatim ==
    \A e \in Engines :
        Len(sent[e]) >= 1 =>
            LET r == sent[e][1]
                t == prompt[e]
            IN  /\ Len(r) = Len(t.person) + Len(t.task) + Len(t.context)
                               + Len(t.output_format)
                /\ OccursAt(r, t.person, 1)
                /\ OccursAt(r, t.task, 1 + Len(t.person))
                /\ OccursAt(r, t.context, 1 + Len(t.person) + Len(t.task))
                /\ OccursAt(r, t.output_format,
                            1 + Len(t.person) + Len(t.task) + Len(t.context))

C9_Witness ==
    /\ pc["A"] = "draft"
    /\ sent["A"] = <<"You are a chef. Create 1 recipe Use rice.JSON">>

\* C10: engines are independent: under any interleaving of two engines' runs,
\* an engine whose run returned holds exactly its own [draft, critique,
\* revision], and a step of one engine never changes the other's history.
C10_OwnHistory ==
    \A e \in Engines :
        outcome[e].kind = "returned" =>
            (Len(history[e]) = 3 /\ history[e] = received[e])

C10_NoInterference ==
    \A e \in Engines :
        history'[e] # history[e] =>
            /\ pc'[e] # pc[e]
            /\ \A f \in Engines \ {e} : history'[f] = history[f] /\ pc'[f] = pc[f]

C10_EnginesIndependent == []C10_OwnHistory /\ [][C10_NoInterference]_vars

C10_Witness ==
    /\ outcome["A"].kind = "returned"
    /\ history["A"] = <<"uno", "uno", "dos">>
    /\ pc["B"] = "revision"
    /\ history["B"] = <<"dos", "uno">>

====
